---- MODULE Spec2Model ----
(***************************************************************************)
(* Redis retention module of the Shinken scheduler (module/module.py).     *)
(*                                                                         *)
(* Strings are sequences of one-character strings, so that the key         *)
(* formatting, str.replace and the regular expressions of the module are   *)
(* computed character by character.  A payload is the sequence             *)
(* <<"pickle", v>> for the pickle of the retention blob v; anything else   *)
(* in the store is a payload cPickle cannot load.                          *)
(***************************************************************************)
EXTENDS Integers, Sequences, FiniteSets, TLC

VARIABLES
    hosts,      \* daemon.hosts: the host names the daemon knows
    services,   \* daemon.services: the <<host_name, service_description>> it knows
    store,      \* the redis server: a function from the keys it holds to payloads
    inventory,  \* the monitoring configuration the daemon is run with
    op,         \* the operation that produced this state
    result,     \* "ok", or the call of the hook that raised
    saved,      \* all_data of hook_save_retention, when op = "save"
    restored,   \* what hook_load_retention handed to restore_retention_data
    calls,      \* the client.set and client.delete calls of the last hook, in order
    daemon,     \* the scheduler instance the hooks are called with
    peer        \* the hosts and services another instance on the same store knows

vars == <<inventory, hosts, services, store, op, result, saved, restored,
          calls, daemon, peer>>

(***************************************************************************)
(* Bounds and sample inputs.                                               *)
(***************************************************************************)
MaxKeys == 3        \* the store holds at most this many keys

States == {"stateA", "stateB"}          \* the daemon's state at a checkpoint

hA  == <<"a">>                          \* "a"
hAB == <<"a", ",", "b">>                \* "a,b"
hSp == <<"a", " ", "b">>                \* "a b"
hB  == <<"b">>                          \* "b"

Garbage == <<"garbage">>                \* a payload that is no pickle

\* The monitoring configurations the daemon is run with: the hosts and
\* services that may be configured, and the keys and payloads another client
\* of the same redis server may set.
Inventories ==
    { \* a comma in a host name: ("a","b,c d") and ("a,b","c d")
      [hosts |-> {hA, hAB},
       services |-> {<<hA, <<"b", ",", "c", " ", "d">>>>,
                     <<hAB, <<"c", " ", "d">>>>},
       foreign |-> {}],
      \* a space in a host name: ("a b","c"), beside ("a","c d")
      [hosts |-> {hA, hSp},
       services |-> {<<hSp, <<"c">>>>, <<hA, <<"c", " ", "d">>>>},
       foreign |-> {}],
      \* "HOST-" inside a key: ("a","HOST-x"), and the foreign key "xHOST-"
      [hosts |-> {hA},
       services |-> {<<hA, <<"H", "O", "S", "T", "-", "x">>>>},
       foreign |-> {<<<<"x", "H", "O", "S", "T", "-">>, Garbage>>}],
      \* foreign keys: "x", and "HOST-a" holding no pickle
      [hosts |-> {hA, hAB},
       services |-> {},
       foreign |-> {<<<<"x">>, Garbage>>,
                    <<<<"H", "O", "S", "T", "-", "a">>, Garbage>>}] }

\* The configuration two scheduler instances on one redis server divide
\* between them: hosts "a" and "b", and the service "c" of host "a".
SharedInventory ==
    [hosts |-> {hA, hB},
     services |-> {<<hA, <<"c">>>>},
     foreign |-> {}]

(***************************************************************************)
(* Strings.                                                                *)
(***************************************************************************)
HOST_    == <<"H", "O", "S", "T", "-">>
SERVICE_ == <<"S", "E", "R", "V", "I", "C", "E", "-">>
SPACE    == <<"S", "P", "A", "C", "E">>
None     == <<>>                        \* Python's None: a match with no groups
IsNone(m) == Len(m) = 0

StartsWith(s, p) == Len(s) >= Len(p) /\ SubSeq(s, 1, Len(p)) = p
Drop(s, n) == SubSeq(s, n + 1, Len(s))

\* str.replace(old, new): every non-overlapping occurrence, left to right
RECURSIVE Replace(_, _, _)
Replace(s, old, new) ==
    IF s = <<>> THEN <<>>
    ELSE IF StartsWith(s, old)
         THEN new \o Replace(Drop(s, Len(old)), old, new)
         ELSE <<Head(s)>> \o Replace(Tail(s), old, new)

\* re.search of a literal: it occurs somewhere in s
SearchLit(p, s) ==
    \E i \in 0..(Len(s) - Len(p)) : SubSeq(s, i + 1, i + Len(p)) = p

\* (.*) : the longest prefix without a newline ('.' matches no newline)
DotStar(s) ==
    LET nl == {i \in 1..Len(s) : s[i] = "\n"}
    IN  IF nl = {} THEN s
        ELSE SubSeq(s, 1, (CHOOSE i \in nl : \A j \in nl : i <= j) - 1)

\* re.match(r'HOST-(.*)', key): the groups, or None
MatchHost(key) ==
    IF StartsWith(key, HOST_) THEN <<DotStar(Drop(key, Len(HOST_)))>> ELSE None

\* re.match(r'SERVICE-([^,]+),(.*)', key): the groups, or None
MatchService(key) ==
    IF ~StartsWith(key, SERVICE_) THEN None
    ELSE LET r == Drop(key, Len(SERVICE_))
             commas == {i \in 1..Len(r) : r[i] = ","}
         IN  IF commas = {} THEN None
             ELSE LET c == CHOOSE i \in commas : \A j \in commas : i <= j
                  IN  IF c = 1 THEN None
                      ELSE <<SubSeq(r, 1, c - 1), DotStar(Drop(r, c))>>

\* re.search(r'SERVICE-([^,]+),(.*)', key): it matches at some position
SearchService(key) ==
    \E i \in 0..Len(key) : ~IsNone(MatchService(Drop(key, i)))

(***************************************************************************)
(* Keys and payloads.                                                      *)
(***************************************************************************)
HostKey(host_name) == HOST_ \o host_name

ServiceKey(host_name, service_desc) ==
    Replace(SERVICE_ \o host_name \o <<",">> \o service_desc, <<" ">>, SPACE)

dumps(v) == <<"pickle", v>>
CanLoad(p) == Len(p) = 2 /\ p[1] = "pickle"
loads(p) == p[2]

(***************************************************************************)
(* The store client.                                                       *)
(***************************************************************************)
SetKey(st, k, v) == [x \in DOMAIN st \cup {k} |-> IF x = k THEN v ELSE st[x]]

\* a delete that leaves the key in place with an empty value
DelKey_blank(st, k) == [x \in DOMAIN st |-> IF x = k THEN <<>> ELSE st[x]]

DelKey(st, k) == [x \in DOMAIN st \ {k} |-> st[x]]

Orders(S) ==
    {f \in [1..Cardinality(S) -> S] : \A i, j \in DOMAIN f : f[i] = f[j] => i = j}

NoData == [hosts |-> <<>>, services |-> <<>>]
NotRestored == [called |-> FALSE, hosts |-> <<>>, services |-> <<>>]
NoPeer == [hosts |-> {}, services |-> {}]

\* daemon.get_retention_data(): one opaque blob per known host and service,
\* the blob of an object being its own and changing with the daemon's state
get_retention_data(hs, ss, state) ==
    [hosts |-> [h \in hs |-> <<state, "host", h>>],
     services |-> [s \in ss |-> <<state, "service", s[1], s[2]>>]]

Init ==
    /\ inventory \in Inventories
    /\ hosts = {}
    /\ services = {}
    /\ store = <<>>
    /\ op = "init"
    /\ result = "ok"
    /\ saved = NoData
    /\ restored = NotRestored
    /\ calls = <<>>
    /\ daemon = "A"
    /\ peer = NoPeer

(***************************************************************************)
(* _yield_outdated_keys: what the scan makes of one key.                   *)
(***************************************************************************)
\* the branch the scan takes for key and the identity it reads from it;
\* "raise" is the AttributeError of re.match(...).groups() on None
DecodeKey(key) ==
    IF SearchLit(HOST_, key)
    THEN IF IsNone(MatchHost(key))
         THEN [kind |-> "raise", ident |-> <<>>]
         ELSE [kind |-> "host", ident |-> <<MatchHost(key)[1]>>]
    ELSE IF SearchService(key)
    THEN IF IsNone(MatchService(key))
         THEN [kind |-> "raise", ident |-> <<>>]
         ELSE [kind |-> "service",
               ident |-> <<MatchService(key)[1],
                           Replace(MatchService(key)[2], SPACE, <<" ">>)>>]
    ELSE [kind |-> "invalid", ident |-> <<>>]

\* a scan that spares the keys of what the other instance knows
Outdated_sparePeer(key, known_hosts, known_services) ==
    LET d == DecodeKey(key)
    IN  \/ d.kind = "host" /\ d.ident[1] \notin known_hosts \cup peer.hosts
        \/ d.kind = "service"
             /\ d.ident \notin known_services \cup peer.services

\* the key is yielded as outdated
Outdated(key, known_hosts, known_services) ==
    LET d == DecodeKey(key)
    IN  \/ d.kind = "host" /\ d.ident[1] \notin known_hosts
        \/ d.kind = "service" /\ d.ident \notin known_services

\* what the scan does with each key of keys: "raise", "yield" or "skip"
Verdicts(keys, known_hosts, known_services) ==
    [key \in keys |->
        IF DecodeKey(key).kind = "raise" THEN "raise"
        ELSE IF Outdated(key, known_hosts, known_services) THEN "yield"
        ELSE "skip"]

\* the loop of hook_load_retention over the generator: keys is what is left
\* of client.keys('*'), delFault the key whose delete raises (None: no fault)
RECURSIVE yield_outdated_keys(_, _, _, _)
yield_outdated_keys(keys, st, verdict, delFault) ==
    IF keys = <<>> THEN [store |-> st, result |-> "ok", calls |-> <<>>]
    ELSE LET key == Head(keys)
         IN  IF verdict[key] = "raise"
             THEN [store |-> st, result |-> "match_error", calls |-> <<>>]
             ELSE IF verdict[key] = "yield"
             THEN IF key = delFault
                  THEN [store |-> st, result |-> "delete_error",
                        calls |-> <<<<"delete", key, None, "raise">>>>]
                  ELSE LET r == yield_outdated_keys(Tail(keys), DelKey(st, key),
                                                    verdict, delFault)
                       IN  [store |-> r.store, result |-> r.result,
                            calls |-> <<<<"delete", key, None, "ok">>>>
                                      \o r.calls]
             ELSE yield_outdated_keys(Tail(keys), st, verdict, delFault)

(***************************************************************************)
(* hook_save_retention.                                                    *)
(***************************************************************************)
\* the keys a Save of the known identities sets
SnapshotKeys(hs, ss) ==
    {HostKey(h) : h \in hs} \cup {ServiceKey(s[1], s[2]) : s \in ss}

\* the client.set calls of one pass, in order: the hosts, then the services
Writes(all_data, ho, so) ==
    [i \in 1..(Len(ho) + Len(so)) |->
        IF i <= Len(ho)
        THEN <<HostKey(ho[i]), dumps(all_data.hosts[ho[i]])>>
        ELSE LET s == so[i - Len(ho)]
             IN  <<ServiceKey(s[1], s[2]), dumps(all_data.services[s])>>]

\* SetAll that goes on to the next write after the one that raises
RECURSIVE SetAll_continue(_, _, _, _)
SetAll_continue(st, writes, i, failAt) ==
    IF i > Len(writes) THEN st
    ELSE IF i = failAt THEN SetAll_continue(st, writes, i + 1, failAt)
    ELSE SetAll_continue(SetKey(st, writes[i][1], writes[i][2]), writes,
                         i + 1, failAt)

\* a Save that replaces what the store holds by the snapshot
SetAll_flush(st, writes, i, failAt) ==
    [k \in {writes[j][1] : j \in DOMAIN writes} |->
        writes[CHOOSE j \in DOMAIN writes : writes[j][1] = k][2]]

\* a Save in one transaction: a failing write undoes the writes before it
RECURSIVE SetAll_rollback(_, _, _, _)
SetAll_rollback(st, writes, i, failAt) ==
    IF failAt # 0 \/ i > Len(writes) THEN st
    ELSE SetAll_rollback(SetKey(st, writes[i][1], writes[i][2]), writes,
                         i + 1, failAt)

\* the store after the calls writes[i..], the call number failAt raising
RECURSIVE SetAll(_, _, _, _)
SetAll(st, writes, i, failAt) ==
    IF i > Len(writes) \/ i = failAt THEN st
    ELSE SetAll(SetKey(st, writes[i][1], writes[i][2]), writes, i + 1, failAt)

\* the client.set calls the pass issues: the call number failAt is the last
Issued(writes, failAt) ==
    [i \in 1..(IF failAt = 0 THEN Len(writes) ELSE failAt) |->
        <<"set", writes[i][1], writes[i][2],
          IF i = failAt THEN "raise" ELSE "ok">>]

hook_save_retention ==
    /\ Cardinality(DOMAIN store \cup SnapshotKeys(hosts, services)) <= MaxKeys
    /\ \E state \in States, ho \in Orders(hosts), so \in Orders(services) :
         LET all_data == get_retention_data(hosts, services, state)
             writes == Writes(all_data, ho, so)
         IN  \E failAt \in 0..Len(writes) :
               /\ store' = SetAll(store, writes, 1, failAt)
               /\ result' = IF failAt = 0 THEN "ok" ELSE "set_error"
               /\ saved' = all_data
               /\ calls' = Issued(writes, failAt)
    /\ op' = "save"
    /\ restored' = NotRestored
    /\ UNCHANGED <<inventory, hosts, services, daemon, peer>>

(***************************************************************************)
(* hook_load_retention.                                                    *)
(***************************************************************************)
\* a Load that leaves out a host whose payload cPickle.loads cannot decode
HostsPresent_decodable(st, hs) ==
    {h \in hs : HostKey(h) \in DOMAIN st /\ CanLoad(st[HostKey(h)])}

\* the known identities whose key the store holds
HostsPresent(st, hs) == {h \in hs : HostKey(h) \in DOMAIN st}
ServicesPresent(st, ss) == {s \in ss : ServiceKey(s[1], s[2]) \in DOMAIN st}

\* a Load that restores the record of every host key the store holds
LoadData_allKeys(st, hs, ss) ==
    [called |-> TRUE,
     hosts |-> [h \in {Drop(k, Len(HOST_)) :
                         k \in {x \in DOMAIN st : /\ StartsWith(x, HOST_)
                                                  /\ CanLoad(st[x])}} |->
                   loads(st[HostKey(h)])],
     services |-> [s \in ServicesPresent(st, ss) |->
                      loads(st[ServiceKey(s[1], s[2])])]]

\* the dictionaries the two loops build when no call raises
LoadData(st, hs, ss) ==
    [called |-> TRUE,
     hosts |-> [h \in HostsPresent(st, hs) |-> loads(st[HostKey(h)])],
     services |-> [s \in ServicesPresent(st, ss) |->
                      loads(st[ServiceKey(s[1], s[2])])]]

\* a Load that unpickles what client.get returned without the None test
LoadErrors_noNoneTest(st, hs, ss, getFault) ==
    (IF getFault THEN {"get_error"} ELSE {})
    \cup (IF \/ \E h \in hs : \/ HostKey(h) \notin DOMAIN st
                               \/ ~CanLoad(st[HostKey(h)])
             \/ \E s \in ss : \/ ServiceKey(s[1], s[2]) \notin DOMAIN st
                               \/ ~CanLoad(st[ServiceKey(s[1], s[2])])
          THEN {"loads_error"} ELSE {})

\* the calls of the two loops that raise: a client.get that fails (getFault),
\* cPickle.loads on a payload that is no pickle
LoadErrors(st, hs, ss, getFault) ==
    (IF getFault THEN {"get_error"} ELSE {})
    \cup (IF \/ \E h \in HostsPresent(st, hs) : ~CanLoad(st[HostKey(h)])
             \/ \E s \in ServicesPresent(st, ss) :
                    ~CanLoad(st[ServiceKey(s[1], s[2])])
          THEN {"loads_error"} ELSE {})

\* the faults of the store client during one Load
LoadFaults ==
    {[call |-> "none", key |-> None], [call |-> "keys", key |-> None]}
    \cup (IF hosts = {} /\ services = {} THEN {}
          ELSE {[call |-> "get", key |-> None]})
    \cup {[call |-> "delete", key |-> k] :
            k \in {x \in DOMAIN store : Outdated(x, hosts, services)}}

\* a Load that deletes the outdated keys first and fetches afterwards
hook_load_retention_reconcileFirst ==
    /\ \E fault \in LoadFaults, order \in Orders(DOMAIN store) :
         LET r == IF fault.call = "keys"
                  THEN [store |-> store, result |-> "keys_error",
                        calls |-> <<>>]
                  ELSE yield_outdated_keys(order, store,
                                           Verdicts(DOMAIN store, hosts,
                                                    services),
                                           fault.key)
             errors == LoadErrors(r.store, hosts, services,
                                  fault.call = "get")
         IN  /\ store' = r.store
             /\ calls' = r.calls
             /\ IF r.result # "ok"
                THEN result' = r.result /\ restored' = NotRestored
                ELSE IF errors # {}
                THEN result' \in errors /\ restored' = NotRestored
                ELSE /\ result' = "ok"
                     /\ restored' = LoadData(r.store, hosts, services)
    /\ op' = "load"
    /\ saved' = NoData
    /\ UNCHANGED <<inventory, hosts, services, daemon, peer>>

hook_load_retention ==
    /\ \E fault \in LoadFaults, order \in Orders(DOMAIN store) :
         LET errors == LoadErrors(store, hosts, services, fault.call = "get")
             r == yield_outdated_keys(order, store,
                                      Verdicts(DOMAIN store, hosts, services),
                                      fault.key)
         IN  IF errors # {}
             THEN /\ result' \in errors
                  /\ restored' = NotRestored
                  /\ store' = store
                  /\ calls' = <<>>
             ELSE /\ restored' = LoadData(store, hosts, services)
                  /\ IF fault.call = "keys"
                     THEN result' = "keys_error" /\ store' = store
                          /\ calls' = <<>>
                     ELSE result' = r.result /\ store' = r.store
                          /\ calls' = r.calls
    /\ op' = "load"
    /\ saved' = NoData
    /\ UNCHANGED <<inventory, hosts, services, daemon, peer>>

(***************************************************************************)
(* The daemon's configuration and the other clients of the server.         *)
(***************************************************************************)
Configured ==
    /\ op' = "config"
    /\ result' = "ok"
    /\ saved' = NoData
    /\ restored' = NotRestored
    /\ calls' = <<>>
    /\ UNCHANGED <<inventory, store, daemon, peer>>

AddHost(h) ==
    /\ h \notin hosts
    /\ h \notin peer.hosts
    /\ hosts' = hosts \cup {h}
    /\ services' = services
    /\ Configured

RemoveHost(h) ==
    /\ h \in hosts
    /\ hosts' = hosts \ {h}
    /\ services' = {s \in services : s[1] # h}
    /\ Configured

AddService(s) ==
    /\ s \notin services
    /\ s[1] \in hosts
    /\ services' = services \cup {s}
    /\ hosts' = hosts
    /\ Configured

RemoveService(s) ==
    /\ s \in services
    /\ services' = services \ {s}
    /\ hosts' = hosts
    /\ Configured

ForeignSet(w) ==
    /\ Cardinality(DOMAIN store \cup {w[1]}) <= MaxKeys
    /\ store' = SetKey(store, w[1], w[2])
    /\ op' = "foreign"
    /\ result' = "ok"
    /\ saved' = NoData
    /\ restored' = NotRestored
    /\ calls' = <<>>
    /\ UNCHANGED <<inventory, hosts, services, daemon, peer>>

\* the hooks are next called with the other scheduler instance
Switch ==
    /\ daemon' = IF daemon = "A" THEN "B" ELSE "A"
    /\ hosts' = peer.hosts
    /\ services' = peer.services
    /\ peer' = [hosts |-> hosts, services |-> services]
    /\ op' = "switch"
    /\ result' = "ok"
    /\ saved' = NoData
    /\ restored' = NotRestored
    /\ calls' = <<>>
    /\ UNCHANGED <<inventory, store>>

Next ==
    \/ hook_save_retention
    \/ hook_load_retention
    \/ \E h \in inventory.hosts : AddHost(h)
    \/ \E h \in inventory.hosts : RemoveHost(h)
    \/ \E s \in inventory.services : AddService(s)
    \/ \E s \in inventory.services : RemoveService(s)
    \/ \E w \in inventory.foreign : ForeignSet(w)

Spec == Init /\ [][Next]_vars

\* two scheduler instances with disjoint hosts and services on one store
InitShared ==
    /\ inventory = SharedInventory
    /\ hosts = {}
    /\ services = {}
    /\ store = <<>>
    /\ op = "init"
    /\ result = "ok"
    /\ saved = NoData
    /\ restored = NotRestored
    /\ calls = <<>>
    /\ daemon = "A"
    /\ peer = NoPeer

NextShared ==
    \/ hook_save_retention
    \/ hook_load_retention
    \/ \E h \in inventory.hosts : AddHost(h)
    \/ \E h \in inventory.hosts : RemoveHost(h)
    \/ \E s \in inventory.services : AddService(s)
    \/ \E s \in inventory.services : RemoveService(s)
    \/ Switch

SpecShared == InitShared /\ [][NextShared]_vars


(***************************************************************************)
(* Properties.                                                             *)
(***************************************************************************)
\* C1: a Save that returns without error, directly followed by a Load with
\* the same known hosts and services that returns without error, hands
\* restore_retention_data a snapshot equal to the saved one.
C1_SaveThenLoad ==
    [][(op = "save" /\ result = "ok" /\ op' = "load" /\ result' = "ok")
        => /\ restored'.called
           /\ restored'.hosts = saved.hosts
           /\ restored'.services = saved.services]_vars

\* C2: a key leaves the store only in a Load, and never when it is the key
\* of a host or service the daemon knows at that Load.
C2_OnlyUnknownKeysDeleted ==
    [][\A k \in DOMAIN store \ DOMAIN store' :
          op' = "load" /\ k \notin SnapshotKeys(hosts, services)]_vars

\* the identity whose Save wrote payload p is known to the daemon
WriterKnown(p) ==
    IF loads(p)[2] = "host" THEN loads(p)[3] \in hosts
    ELSE <<loads(p)[3], loads(p)[4]>> \in services

\* C3: after a successful Load the store holds no record that a Save wrote
\* for a host or service the daemon does not know.
C3_StaleKeysRemoved ==
    (op = "load" /\ result = "ok")
    => \A k \in DOMAIN store : CanLoad(store[k]) => WriterKnown(store[k])

\* C4: the key Save builds for a known service whose host name and
\* description hold no SPACE token is decoded by the scan to that service.
C4_ServiceKeyRoundTrip ==
    \A s \in services :
        (~SearchLit(SPACE, s[1]) /\ ~SearchLit(SPACE, s[2]))
        => DecodeKey(ServiceKey(s[1], s[2])) = [kind |-> "service", ident |-> s]

\* C5: two distinct known hosts have distinct keys, and two distinct known
\* services have distinct keys.
C5_KeyInjective ==
    /\ \A h1, h2 \in hosts : h1 # h2 => HostKey(h1) # HostKey(h2)
    /\ \A s1, s2 \in services :
          s1 # s2 => ServiceKey(s1[1], s1[2]) # ServiceKey(s2[1], s2[2])

\* key matches both patterns of the scan
MatchesBoth(key) == SearchLit(HOST_, key) /\ SearchService(key)

\* C6: no key Save writes matches both the Host and the Service pattern of
\* the scan; a host's key is classified Host and a service's key Service.
C6_KeySpaceSeparation ==
    /\ \A h \in hosts :
          /\ ~MatchesBoth(HostKey(h))
          /\ DecodeKey(HostKey(h)).kind = "host"
    /\ \A s \in services :
          /\ ~MatchesBoth(ServiceKey(s[1], s[2]))
          /\ DecodeKey(ServiceKey(s[1], s[2])).kind = "service"

\* C7: when Save returns without error the store holds, under the key of
\* every host and service of the snapshot, the pickle of its current blob.
C7_SavePostcondition ==
    (op = "save" /\ result = "ok")
    => /\ \A h \in hosts :
             /\ HostKey(h) \in DOMAIN store
             /\ store[HostKey(h)] = dumps(saved.hosts[h])
       /\ \A s \in services :
             /\ ServiceKey(s[1], s[2]) \in DOMAIN store
             /\ store[ServiceKey(s[1], s[2])] = dumps(saved.services[s])

\* C8: a Save, failing or not, deletes no key, and leaves the value of
\* every key that is not the key of a known host or service as it was.
C8_SaveFrame ==
    [][op' = "save"
        => /\ DOMAIN store \subseteq DOMAIN store'
           /\ \A k \in DOMAIN store \ SnapshotKeys(hosts, services) :
                 store'[k] = store[k]]_vars

\* a Save went through while the store held a key of no known identity
C8_Witness ==
    /\ op = "save"
    /\ result = "ok"
    /\ hosts # {}
    /\ DOMAIN store \ SnapshotKeys(hosts, services) # {}

\* C9: a known host or service without a key in the store makes no call of
\* the Load raise: cPickle.loads raises only for a stored payload that is
\* no pickle and the scan only at a key it cannot parse; unless a call
\* raises before it, restore_retention_data gets the entries of exactly the
\* known identities that have a key, each the unpickled stored value.
C9_MissingKeyTolerance ==
    [][op' = "load"
        => /\ result' = "loads_error"
              => \/ \E h \in HostsPresent(store, hosts) :
                       ~CanLoad(store[HostKey(h)])
                 \/ \E s \in ServicesPresent(store, services) :
                       ~CanLoad(store[ServiceKey(s[1], s[2])])
           /\ result' = "match_error"
              => \E k \in DOMAIN store : DecodeKey(k).kind = "raise"
           /\ result' \notin {"get_error", "loads_error"}
              => /\ restored'.called
                 /\ DOMAIN restored'.hosts = HostsPresent(store, hosts)
                 /\ DOMAIN restored'.services = ServicesPresent(store, services)
                 /\ \A h \in HostsPresent(store, hosts) :
                       restored'.hosts[h] = loads(store[HostKey(h)])
                 /\ \A s \in ServicesPresent(store, services) :
                       restored'.services[s] =
                           loads(store[ServiceKey(s[1], s[2])])]_vars

\* a Load returned with a known host that has no key and so no entry, and
\* restored the entry of another host
C9_Witness ==
    /\ op = "load"
    /\ result = "ok"
    /\ restored.called
    /\ \E h \in hosts : HostKey(h) \notin DOMAIN store
                        /\ h \notin DOMAIN restored.hosts
    /\ DOMAIN restored.hosts # {}

\* key has neither the shape HOST-... nor the shape SERVICE-<host>,<desc>
Unrecognised(key) == ~StartsWith(key, HOST_) /\ IsNone(MatchService(key))

\* C10: a Load that reaches the scan keeps every unrecognised key, and the
\* scan raises only when the store holds a key of a recognised shape that
\* it cannot parse.
C10_UnrecognisedKeysSkipped ==
    [][(op' = "load" /\ restored'.called)
        => /\ \A k \in DOMAIN store : Unrecognised(k) => k \in DOMAIN store'
           /\ result' = "match_error"
              => \E k \in DOMAIN store :
                    ~Unrecognised(k) /\ DecodeKey(k).kind = "raise"]_vars

\* the keys the client.set calls of a call log set successfully
KeysSet(log) == { log[i][2] : i \in { j \in DOMAIN log : log[j][1] = "set"
                                                      /\ log[j][4] = "ok" } }

SameAt(st1, st2, k) ==
    /\ k \in DOMAIN st1 <=> k \in DOMAIN st2
    /\ k \in DOMAIN st1 => st1[k] = st2[k]

\* C11: a Save ends with the error of a client.set exactly when one of its set
\* calls raised; the raising call is the last call the pass issues; and every
\* key of the snapshot that no call before it set is in the store as it was
\* before the pass.
C11_SaveFailureStops ==
    [][op' = "save" =>
         /\ result' = "set_error"
              <=> \E i \in DOMAIN calls' : calls'[i][4] = "raise"
         /\ \A i \in DOMAIN calls' : calls'[i][4] = "raise" => i = Len(calls')
         /\ \A k \in SnapshotKeys(hosts, services) \ KeysSet(calls') :
               SameAt(store', store, k)]_vars

\* a Save whose first set succeeded and whose second raised, with a third
\* write left undone
C11_Witness ==
    /\ op = "save"
    /\ result = "set_error"
    /\ Len(calls) = 2
    /\ Cardinality(SnapshotKeys(hosts, services)) = 3
    /\ \E k \in SnapshotKeys(hosts, services) : k \notin DOMAIN store

\* the known hosts and services whose payload in the store is no pickle
Undecodable(st, hs, ss) ==
    [hosts |-> {h \in hs : /\ HostKey(h) \in DOMAIN st
                           /\ ~CanLoad(st[HostKey(h)])},
     services |-> {s \in ss : /\ ServiceKey(s[1], s[2]) \in DOMAIN st
                              /\ ~CanLoad(st[ServiceKey(s[1], s[2])])}]

\* C12: a Load that meets a payload it cannot decode under the key of a known
\* host or service ends with the error of cPickle.loads or client.get; a Load
\* that ends with one of these errors has not called restore_retention_data;
\* and the snapshot a Load hands to restore_retention_data has an entry for
\* every known host and service whose key is in the store.
C12_LoadFailurePropagates ==
    [][op' = "load" =>
         LET bad == Undecodable(store, hosts, services)
         IN  /\ (bad.hosts # {} \/ bad.services # {})
                  => result' \in {"loads_error", "get_error"}
             /\ result' \in {"loads_error", "get_error"} => ~restored'.called
             /\ restored'.called
                  => /\ \A h \in hosts : HostKey(h) \in DOMAIN store
                           => h \in DOMAIN restored'.hosts
                     /\ \A s \in services :
                           ServiceKey(s[1], s[2]) \in DOMAIN store
                             => s \in DOMAIN restored'.services]_vars

\* a Load that raised in cPickle.loads on the payload of a known host, beside
\* a known host it could have restored
C12_Witness ==
    /\ op = "load"
    /\ result = "loads_error"
    /\ ~restored.called
    /\ Undecodable(store, hosts, services).hosts # {}
    /\ \E h \in hosts : HostKey(h) \in DOMAIN store /\ CanLoad(store[HostKey(h)])

\* C13: a Load in which a client.delete raised does not end with the error of
\* that call, and has deleted every other outdated key of the store.
C13_DeleteFailureSkipped ==
    [][op' = "load" =>
         \A i \in DOMAIN calls' :
            calls'[i][4] = "raise"
              => /\ result' # "delete_error"
                 /\ \A k \in DOMAIN store :
                       (Outdated(k, hosts, services) /\ k # calls'[i][2])
                         => k \notin DOMAIN store']_vars

\* C14: a Load that issued a client.delete or changed the store has called
\* restore_retention_data with a snapshot fetched from the store as it was
\* before the first delete: an entry for every known host and service whose
\* key was in the store before the call.  A Load that ends with the error of
\* client.get or cPickle.loads issued no delete and left the store as it was.
C14_ReconciliationOrder ==
    [][op' = "load" =>
         /\ (calls' # <<>> \/ store' # store)
              => /\ restored'.called
                 /\ DOMAIN restored'.hosts
                      = {h \in hosts : HostKey(h) \in DOMAIN store}
                 /\ DOMAIN restored'.services
                      = {s \in services :
                           ServiceKey(s[1], s[2]) \in DOMAIN store}
         /\ result' \in {"get_error", "loads_error"}
              => /\ store' = store
                 /\ calls' = <<>>
                 /\ ~restored'.called]_vars

\* a Load that deleted a key after it had fetched a record from it
C14_Witness ==
    /\ op = "load"
    /\ restored.called
    /\ \E i \in DOMAIN calls :
          /\ calls[i][1] = "delete" /\ calls[i][4] = "ok"
          /\ \E s \in DOMAIN restored.services :
                ServiceKey(s[1], s[2]) = calls[i][2]

\* C15: with two instances on one store, a Load that returns leaves in the
\* store no key of a host or service the other instance knows, and restores
\* no entry for a known host or service whose key the store does not hold: the
\* instance that saved a record finds nothing of it once the other has loaded.
C15_SharedStoreHazard ==
    [][(op' = "load" /\ result' = "ok") =>
         /\ \A h \in peer.hosts : HostKey(h) \notin DOMAIN store'
         /\ \A s \in peer.services :
               ServiceKey(s[1], s[2]) \notin DOMAIN store'
         /\ \A h \in hosts :
               HostKey(h) \notin DOMAIN store => h \notin DOMAIN restored'.hosts
         /\ \A s \in services :
               ServiceKey(s[1], s[2]) \notin DOMAIN store
                 => s \notin DOMAIN restored'.services]_vars

\* instance B has loaded, and its Load deleted the host key and the service
\* key of host "a" that instance A knows
C15_Witness ==
    /\ op = "load"
    /\ result = "ok"
    /\ daemon = "B"
    /\ hA \in peer.hosts
    /\ peer.services # {}
    /\ hosts # {}
    /\ \E i \in DOMAIN calls :
          calls[i] = <<"delete", HostKey(hA), None, "ok">>
    /\ \E i \in DOMAIN calls, s \in peer.services :
          calls[i] = <<"delete", ServiceKey(s[1], s[2]), None, "ok">>

\* "host" or "service": the kind of record a client.set call of a Save wrote
KindSet(call) == loads(call[3])[2]

\* C16: after a Save that ended with the error of a client.set, every key a
\* call before the failing one set holds the payload of the last such call on
\* it; every other key is in the store as it was before the pass; no call for
\* a host follows a call for a service; and when the failing call is for a
\* service, every known host's key holds the host's record of this snapshot.
C16_NoRollback ==
    [][(op' = "save" /\ result' = "set_error") =>
         LET oks == {i \in DOMAIN calls' : calls'[i][4] = "ok"}
         IN  /\ \A i \in oks :
                   (\A j \in oks : j > i => calls'[j][2] # calls'[i][2])
                     => /\ calls'[i][2] \in DOMAIN store'
                        /\ store'[calls'[i][2]] = calls'[i][3]
             /\ \A k \in (DOMAIN store \cup DOMAIN store') \ KeysSet(calls') :
                   SameAt(store', store, k)
             /\ \A i, j \in DOMAIN calls' :
                   (i < j /\ KindSet(calls'[i]) = "service")
                     => KindSet(calls'[j]) = "service"
             /\ KindSet(calls'[Len(calls')]) = "service"
                  => \A h \in hosts :
                        /\ HostKey(h) \in DOMAIN store'
                        /\ store'[HostKey(h)] = dumps(saved'.hosts[h])]_vars

\* a Save that wrote two host records and raised at the write of a service
C16_Witness ==
    /\ op = "save"
    /\ result = "set_error"
    /\ Len(calls) = 3
    /\ KindSet(calls[3]) = "service"
    /\ \A h \in hosts : /\ HostKey(h) \in DOMAIN store
                        /\ store[HostKey(h)] = dumps(saved.hosts[h])

\* C17: a Load that returns, run right after a Load that returned, deletes no
\* key and hands restore_retention_data the snapshot the first one handed over.
C17_LoadIdempotent ==
    [][(/\ op = "load" /\ result = "ok"
        /\ op' = "load" /\ result' = "ok") =>
         /\ store' = store
         /\ calls' = <<>>
         /\ restored' = restored]_vars

\* C18: a Load, returning or raising, issues no client.set; the keys of the
\* store after it are keys the store had before it, each with the value it
\* had before.
C18_LoadFrame ==
    [][op' = "load" =>
         /\ \A i \in DOMAIN calls' : calls'[i][1] # "set"
         /\ DOMAIN store' \subseteq DOMAIN store
         /\ \A k \in DOMAIN store' : store'[k] = store[k]]_vars

\* a Load that returned after it deleted a key and left another in the store
C18_Witness ==
    /\ op = "load"
    /\ result = "ok"
    /\ \E i \in DOMAIN calls : calls[i][1] = "delete" /\ calls[i][4] = "ok"
    /\ DOMAIN store # {}

\* C19: the snapshot a Load hands to restore_retention_data has entries for
\* known hosts and known services only, and each entry is what cPickle.loads
\* makes of the payload the store held under the key of that host or service.
C19_LoadOutputShape ==
    [][(op' = "load" /\ restored'.called) =>
         /\ DOMAIN restored'.hosts \subseteq hosts
         /\ DOMAIN restored'.services \subseteq services
         /\ \A h \in DOMAIN restored'.hosts :
               /\ HostKey(h) \in DOMAIN store
               /\ CanLoad(store[HostKey(h)])
               /\ restored'.hosts[h] = loads(store[HostKey(h)])
         /\ \A s \in DOMAIN restored'.services :
               /\ ServiceKey(s[1], s[2]) \in DOMAIN store
               /\ CanLoad(store[ServiceKey(s[1], s[2])])
               /\ restored'.services[s]
                    = loads(store[ServiceKey(s[1], s[2])])]_vars

\* a Load that restored a known host while the store also held the key of a
\* host the daemon does not know, which the same Load deleted
C19_Witness ==
    /\ op = "load"
    /\ restored.called
    /\ DOMAIN restored.hosts # {}
    /\ \E i \in DOMAIN calls :
          /\ calls[i][1] = "delete"
          /\ DecodeKey(calls[i][2]).kind = "host"
          /\ DecodeKey(calls[i][2]).ident[1] \notin hosts

====
